---------------------------- MODULE Spec2Model ----------------------------
(***************************************************************************)
(* Model of the expresser pipeline (src/src/main.rs, token.rs, ast.rs):    *)
(* a line of text is tokenized, the tokens are parsed by a recursive       *)
(* descent parser into an Expression, and the Expression is evaluated.     *)
(*                                                                         *)
(* A character is a one-character string and a line is a sequence of       *)
(* characters.  Rust's Option is a record with the field some; a panic is  *)
(* a result record with ok = FALSE that names the panicking site.          *)
(*                                                                         *)
(* Num is i128 in the source, a two's complement integer of 128 bits.      *)
(* Here it is a two's complement integer of NumBits bits, so that its      *)
(* limits are within reach of short lines.  What +, - and * do at the      *)
(* limits depends on the build: with overflow checks (the dev and test     *)
(* profiles) the operation panics, without them (the release profile) the  *)
(* result wraps.  Both outcomes are in the model.                          *)
(***************************************************************************)
EXTENDS Integers, Sequences, FiniteSets, TLC

VARIABLES line, pc, tokens, stream, expr, result, error, got, lineno

vars == <<line, pc, tokens, stream, expr, result, error, got, lineno>>

---------------------------------------------------------------------------
(* Bounds of the checked inputs *)

\* longest line of arbitrary characters
MaxLen == 4
\* longest sequence of arbitrary tokens handed to parse_tokens
MaxTokens == 4
\* largest number a token of such a sequence holds
MaxNumber == 1
\* largest one-digit operand of the well-formed lines
MaxOperand == 3
\* longest token vector of a TokenStream used on its own
MaxCursorTokens == 3
\* how far past the end of its tokens such a TokenStream is advanced
MaxPast == 2
\* the width of Num in bits
NumBits == 15
\* longest line of the input of main
MaxFileLine == 3
\* number of lines of the input of main after the first
MaxLines == 2

\* characters of the arbitrary lines: digits, symbols of each level of the
\* grammar and the parentheses, whitespace, and a character of no class
DigitChars == {"0", "1", "2"}
SymbolChars == {"+", "-", "*", "<", "(", ")"}
WhitespaceChars == {" ", "\t"}
OtherChars == {"a"}
Chars == DigitChars \cup SymbolChars \cup WhitespaceChars \cup OtherChars

---------------------------------------------------------------------------
(* Num *)

Modulus == 2 ^ NumBits
NumMax == 2 ^ (NumBits - 1) - 1
NumMin == -(2 ^ (NumBits - 1))

\* v is a value of Num
InNum(v) == NumMin <= v /\ v <= NumMax

\* the value of Num that the wrapping operations give for the exact v
Wrap(v) == ((v - NumMin) % Modulus) + NumMin

---------------------------------------------------------------------------
(* Option *)

None == [some |-> FALSE]
Some(v) == [some |-> TRUE, val |-> v]

---------------------------------------------------------------------------
(* token.rs *)

Symbols == {"Plus", "Minus", "Asterisk", "LessThan", "BiggerThan", "Equal",
            "LeftParenthesis", "RightParenthesis"}

ParseChar(c) ==
    CASE c = "+" -> Some("Plus")
      [] c = "-" -> Some("Minus")
      [] c = "*" -> Some("Asterisk")
      [] c = ">" -> Some("BiggerThan")
      [] c = "<" -> Some("LessThan")
      [] c = "=" -> Some("Equal")
      [] c = "(" -> Some("LeftParenthesis")
      [] c = ")" -> Some("RightParenthesis")
      [] OTHER -> None

\* Token
Op(sym) == [type |-> "Op", sym |-> sym]
Number(num) == [type |-> "Number", num |-> num]
Whitespace(c) == [type |-> "Whitespace", ch |-> c]

\* char::to_digit(10)
ToDigit(c) ==
    CASE c = "0" -> Some(0) [] c = "1" -> Some(1) [] c = "2" -> Some(2)
      [] c = "3" -> Some(3) [] c = "4" -> Some(4) [] c = "5" -> Some(5)
      [] c = "6" -> Some(6) [] c = "7" -> Some(7) [] c = "8" -> Some(8)
      [] c = "9" -> Some(9)
      [] OTHER -> None

\* char::is_whitespace, on the whitespace characters a line can hold here
IsWhitespace(c) == c \in {" ", "\t"}

\* TokenStream
TokenStreamNew(toks) == [tokens |-> toks, pos |-> 0]

\* Variant of Advance: the cursor stops at the end of the tokens
AdvanceClamped(ts) ==
    IF ts.pos < Len(ts.tokens) THEN [ts EXCEPT !.pos = @ + 1] ELSE ts

\* TokenStream::advance: self.pos += 1, whatever pos is
Advance(ts) == [ts EXCEPT !.pos = @ + 1]

\* pos is zero-based, sequences are one-based
Read(ts) ==
    IF ts.pos < Len(ts.tokens)
    THEN Some(ts.tokens[ts.pos + 1])
    ELSE None

\* Variant of AfterRead: read() moves the cursor over the token it returns
AfterReadConsuming(ts) ==
    IF ts.pos < Len(ts.tokens) THEN [ts EXCEPT !.pos = @ + 1] ELSE ts

\* the TokenStream after read(&mut self): read assigns no field
AfterRead(ts) == ts

\* the locals of tokenize before the loop
TokenizeStart ==
    [current_number |-> None, tokens |-> <<>>, i |-> 0, panicked |-> FALSE,
     overflowed |-> FALSE]

\* Variant of TokenizeChar: the digit arm without its guard num != 0, so
\* that a digit is appended to a run that is 0
TokenizeCharAnyRun(st, c) ==
    LET digit == ToDigit(c)
        sym == ParseChar(c)
        cur == st.current_number
    IN  CASE IsWhitespace(c) /\ cur.some ->
               [st EXCEPT !.tokens = @ \o <<Number(cur.val), Whitespace(c)>>,
                          !.current_number = None,
                          !.i = @ + 1]
          [] IsWhitespace(c) /\ ~cur.some ->
               [st EXCEPT !.tokens = Append(@, Whitespace(c)), !.i = @ + 1]
          [] ~IsWhitespace(c) /\ digit.some /\ cur.some ->
               [st EXCEPT !.current_number =
                              Some(Wrap(cur.val * 10 + digit.val)),
                          !.overflowed =
                              @ \/ ~InNum(cur.val * 10 + digit.val),
                          !.i = @ + 1]
          [] ~IsWhitespace(c) /\ digit.some /\ ~cur.some ->
               [st EXCEPT !.current_number = Some(digit.val), !.i = @ + 1]
          [] ~IsWhitespace(c) /\ ~digit.some /\ sym.some /\ cur.some ->
               [st EXCEPT !.tokens = @ \o <<Number(cur.val), Op(sym.val)>>,
                          !.current_number = None,
                          !.i = @ + 1]
          [] ~IsWhitespace(c) /\ ~digit.some /\ sym.some /\ ~cur.some ->
               [st EXCEPT !.tokens = Append(@, Op(sym.val)), !.i = @ + 1]
          [] OTHER ->
               [st EXCEPT !.panicked = TRUE]

\* Variant of TokenizeChar: the whitespace arm emits the number but leaves
\* current_number as it is
TokenizeCharKeepRun(st, c) ==
    LET digit == ToDigit(c)
        sym == ParseChar(c)
        cur == st.current_number
    IN  CASE IsWhitespace(c) /\ cur.some ->
               [st EXCEPT !.tokens = @ \o <<Number(cur.val), Whitespace(c)>>,
                          !.i = @ + 1]
          [] IsWhitespace(c) /\ ~cur.some ->
               [st EXCEPT !.tokens = Append(@, Whitespace(c)), !.i = @ + 1]
          [] ~IsWhitespace(c) /\ digit.some /\ cur.some /\ cur.val # 0 ->
               [st EXCEPT !.current_number =
                              Some(Wrap(cur.val * 10 + digit.val)),
                          !.overflowed =
                              @ \/ ~InNum(cur.val * 10 + digit.val),
                          !.i = @ + 1]
          [] ~IsWhitespace(c) /\ digit.some /\ ~cur.some ->
               [st EXCEPT !.current_number = Some(digit.val), !.i = @ + 1]
          [] ~IsWhitespace(c) /\ ~digit.some /\ sym.some /\ cur.some ->
               [st EXCEPT !.tokens = @ \o <<Number(cur.val), Op(sym.val)>>,
                          !.current_number = None,
                          !.i = @ + 1]
          [] ~IsWhitespace(c) /\ ~digit.some /\ sym.some /\ ~cur.some ->
               [st EXCEPT !.tokens = Append(@, Op(sym.val)), !.i = @ + 1]
          [] OTHER ->
               [st EXCEPT !.panicked = TRUE]

\* one iteration of the loop of tokenize: the match on
\* (c, c.to_digit(10), Symbol::parse_char(c), current_number), then i += 1.
\* num * 10 + digit is kept as the wrapping operations give it, and
\* overflowed records that it was out of Num, which is where a build with
\* overflow checks panics.
TokenizeChar(st, c) ==
    LET digit == ToDigit(c)
        sym == ParseChar(c)
        cur == st.current_number
    IN  CASE IsWhitespace(c) /\ cur.some ->
               [st EXCEPT !.tokens = @ \o <<Number(cur.val), Whitespace(c)>>,
                          !.current_number = None,
                          !.i = @ + 1]
          [] IsWhitespace(c) /\ ~cur.some ->
               [st EXCEPT !.tokens = Append(@, Whitespace(c)), !.i = @ + 1]
          [] ~IsWhitespace(c) /\ digit.some /\ cur.some /\ cur.val # 0 ->
               [st EXCEPT !.current_number =
                              Some(Wrap(cur.val * 10 + digit.val)),
                          !.overflowed =
                              @ \/ ~InNum(cur.val * 10 + digit.val),
                          !.i = @ + 1]
          [] ~IsWhitespace(c) /\ digit.some /\ ~cur.some ->
               [st EXCEPT !.current_number = Some(digit.val), !.i = @ + 1]
          [] ~IsWhitespace(c) /\ ~digit.some /\ sym.some /\ cur.some ->
               [st EXCEPT !.tokens = @ \o <<Number(cur.val), Op(sym.val)>>,
                          !.current_number = None,
                          !.i = @ + 1]
          [] ~IsWhitespace(c) /\ ~digit.some /\ sym.some /\ ~cur.some ->
               [st EXCEPT !.tokens = Append(@, Op(sym.val)), !.i = @ + 1]
          [] OTHER ->
               [st EXCEPT !.panicked = TRUE]

\* the loop of tokenize over input[k..]; a panic ends it
RECURSIVE TokenizeLoop(_, _, _)
TokenizeLoop(input, k, st) ==
    IF k > Len(input) \/ st.panicked
    THEN st
    ELSE TokenizeLoop(input, k + 1, TokenizeChar(st, input[k]))

\* Variant of Tokenize: without the flush of the last number after the loop
TokenizeWithoutFlush(input) ==
    LET st == TokenizeLoop(input, 1, TokenizeStart)
    IN  IF st.panicked
        THEN [ok |-> FALSE, location |-> st.i, overflowed |-> st.overflowed]
        ELSE [ok |-> TRUE, tokens |-> st.tokens,
              overflowed |-> st.overflowed]

\* Variant of Tokenize: i counts from one
TokenizeOneBased(input) ==
    LET st == TokenizeLoop(input, 1, TokenizeStart)
    IN  IF st.panicked
        THEN [ok |-> FALSE, location |-> st.i + 1,
              overflowed |-> st.overflowed]
        ELSE [ok |-> TRUE,
              tokens |-> IF st.current_number.some
                         THEN Append(st.tokens, Number(st.current_number.val))
                         ELSE st.tokens,
              overflowed |-> st.overflowed]

\* tokenize: the tokens, or the panic "Tokenization error at location i",
\* as a build without overflow checks gives them; overflowed tells that a
\* build with overflow checks has panicked at num * 10 + digit before
Tokenize(input) ==
    LET st == TokenizeLoop(input, 1, TokenizeStart)
    IN  IF st.panicked
        THEN [ok |-> FALSE, location |-> st.i, overflowed |-> st.overflowed]
        ELSE [ok |-> TRUE,
              tokens |-> IF st.current_number.some
                         THEN Append(st.tokens, Number(st.current_number.val))
                         ELSE st.tokens,
              overflowed |-> st.overflowed]

---------------------------------------------------------------------------
(* ast.rs *)

Operators == {"Summation", "Subtraction", "Multiplication",
              "LessThanComparison", "BiggerThanComparison",
              "EqualityComparison"}

\* Variant of Apply: BiggerThanComparison holds of equal operands too
ApplyInclusive(op, left, right) ==
    CASE op = "Summation" -> left + right
      [] op = "Subtraction" -> left - right
      [] op = "Multiplication" -> left * right
      [] op = "LessThanComparison" -> IF left < right THEN 1 ELSE 0
      [] op = "BiggerThanComparison" -> IF left >= right THEN 1 ELSE 0
      [] op = "EqualityComparison" -> IF left = right THEN 1 ELSE 0

\* Operator::apply, as a build without overflow checks computes it
Apply(op, left, right) ==
    CASE op = "Summation" -> Wrap(left + right)
      [] op = "Subtraction" -> Wrap(left - right)
      [] op = "Multiplication" -> Wrap(left * right)
      [] op = "LessThanComparison" -> IF left < right THEN 1 ELSE 0
      [] op = "BiggerThanComparison" -> IF left > right THEN 1 ELSE 0
      [] op = "EqualityComparison" -> IF left = right THEN 1 ELSE 0

\* the line of Operator::apply at which a build with overflow checks
\* panics for these operands, or 0 when the result is in Num
ApplyPanic(op, left, right) ==
    CASE op = "Summation" /\ ~InNum(left + right) -> 17
      [] op = "Subtraction" /\ ~InNum(left - right) -> 18
      [] op = "Multiplication" /\ ~InNum(left * right) -> 19
      [] OTHER -> 0

\* Operator::from_symbol
FromSymbol(symbol) ==
    CASE symbol = "Plus" -> Some("Summation")
      [] symbol = "Minus" -> Some("Subtraction")
      [] symbol = "Asterisk" -> Some("Multiplication")
      [] symbol = "LessThan" -> Some("LessThanComparison")
      [] symbol = "BiggerThan" -> Some("BiggerThanComparison")
      [] symbol = "Equal" -> Some("EqualityComparison")
      [] OTHER -> None

\* Expression
Const(val) == [kind |-> "Const", val |-> val]
Action(left, action, right) ==
    [kind |-> "Action", left |-> left, action |-> action, right |-> right]

\* Expression::evaluate
RECURSIVE Evaluate(_)
Evaluate(e) ==
    IF e.kind = "Const"
    THEN e.val
    ELSE Apply(e.action, Evaluate(e.left), Evaluate(e.right))

\* the line at which evaluate panics in a build with overflow checks, or 0:
\* the left operand is evaluated first, then the right one, then apply
RECURSIVE EvaluatePanic(_)
EvaluatePanicOf(e, left, right) ==
    IF left # 0 THEN left
    ELSE IF right # 0 THEN right
    ELSE ApplyPanic(e.action, Evaluate(e.left), Evaluate(e.right))
EvaluatePanic(e) ==
    IF e.kind = "Const"
    THEN 0
    ELSE EvaluatePanicOf(e, EvaluatePanic(e.left), EvaluatePanic(e.right))

\* What a read_* function leaves behind: the expression and the stream as
\* it is then, or a panic, named by the source line that raises it and by
\* its cause, with the stream as it is then.
Parsed(e, ts) == [ok |-> TRUE, expr |-> e, stream |-> ts]
Panicked(srcLine, cause, ts) ==
    [ok |-> FALSE, panic |-> [line |-> srcLine, cause |-> cause],
     stream |-> ts]

IsRelationSymbol(s) ==
    /\ s.type = "Op"
    /\ s.sym = "LessThan" \/ s.sym = "BiggerThan" \/ s.sym = "Equal"

\* Variant of IsTermSymbol: the term loop does not take -
IsTermSymbolPlusOnly(s) ==
    /\ s.type = "Op"
    /\ s.sym = "Plus"

IsTermSymbol(s) ==
    /\ s.type = "Op"
    /\ s.sym = "Plus" \/ s.sym = "Minus"

\* Variant of IsFactorSymbol: + is read at the level of *
IsFactorSymbolWithPlus(s) ==
    /\ s.type = "Op"
    /\ s.sym = "Asterisk" \/ s.sym = "Plus"

IsFactorSymbol(s) ==
    /\ s.type = "Op"
    /\ s.sym = "Asterisk"

RECURSIVE ReadPrimary(_), ReadRelation(_), ReadTerm(_), ReadFactor(_)
RECURSIVE ReadRelationLoop(_, _), ReadTermLoop(_, _), ReadFactorLoop(_, _)

\* Variant of ReadPrimaryClose: the closing parenthesis is not asserted
ReadPrimaryCloseUnchecked(inner) ==
    IF ~inner.ok
    THEN inner
    ELSE Parsed(inner.expr, Advance(inner.stream))

\* read_primary after the inner read_relation returned: the assert_eq on
\* the closing parenthesis, the advance over it, and the result
ReadPrimaryClose(inner) ==
    IF ~inner.ok
    THEN inner
    ELSE LET closing == Read(inner.stream)
         IN  IF ~closing.some
             THEN Panicked(82, "unwrap", inner.stream)
             ELSE IF closing.val # Op("RightParenthesis")
             THEN Panicked(82, "assert_eq", inner.stream)
             ELSE Parsed(inner.expr, Advance(inner.stream))

\* Variant of ReadPrimary: the cursor is advanced over the token before
\* the token is matched
ReadPrimaryAdvancing(ts) ==
    LET token == Read(ts)
    IN  IF ~token.some
        THEN Panicked(73, "unwrap", ts)
        ELSE IF token.val.type = "Number"
        THEN Parsed(Const(token.val.num), Advance(ts))
        ELSE IF token.val = Op("LeftParenthesis")
        THEN ReadPrimaryClose(ReadRelation(Advance(ts)))
        ELSE Panicked(86, "panic", Advance(ts))

\* Variant of ReadPrimary: the cursor is left on the Number it returns
ReadPrimaryStaying(ts) ==
    LET token == Read(ts)
    IN  IF ~token.some
        THEN Panicked(73, "unwrap", ts)
        ELSE IF token.val.type = "Number"
        THEN Parsed(Const(token.val.num), ts)
        ELSE IF token.val = Op("LeftParenthesis")
        THEN ReadPrimaryClose(ReadRelation(Advance(ts)))
        ELSE Panicked(86, "panic", ts)

\* read_primary
ReadPrimary(ts) ==
    LET token == Read(ts)
    IN  IF ~token.some
        THEN Panicked(73, "unwrap", ts)
        ELSE IF token.val.type = "Number"
        THEN Parsed(Const(token.val.num), Advance(ts))
        ELSE IF token.val = Op("LeftParenthesis")
        THEN ReadPrimaryClose(ReadRelation(Advance(ts)))
        ELSE Panicked(86, "panic", ts)

\* the assignment to expr in the loop of read_factor, once the right
\* operand is read, and the loop's next iteration
ReadFactorAction(e, op, right) ==
    IF ~right.ok
    THEN right
    ELSE ReadFactorLoop(Action(e, op, right.expr), right.stream)

\* the while loop of read_factor, with expr and the stream as they are at
\* the loop's head
ReadFactorLoop(e, ts) ==
    LET token == Read(ts)
    IN  IF token.some /\ IsFactorSymbol(token.val)
        THEN IF ~FromSymbol(token.val.sym).some
             THEN Panicked(152, "unwrap", Advance(ts))
             ELSE ReadFactorAction(e, FromSymbol(token.val.sym).val,
                                   ReadPrimary(Advance(ts)))
        ELSE Parsed(e, ts)

\* read_factor once its first operand is read
ReadFactorFrom(first) ==
    IF ~first.ok THEN first ELSE ReadFactorLoop(first.expr, first.stream)

\* read_factor
ReadFactor(ts) == ReadFactorFrom(ReadPrimary(ts))

\* the assignment to expr in the loop of read_term
ReadTermAction(e, op, right) ==
    IF ~right.ok
    THEN right
    ELSE ReadTermLoop(Action(e, op, right.expr), right.stream)

\* Variant of ReadTermLoop: the right operand is a whole term, so that a
\* chain folds to the right
ReadTermLoopRight(e, ts) ==
    LET token == Read(ts)
    IN  IF token.some /\ IsTermSymbol(token.val)
        THEN IF ~FromSymbol(token.val.sym).some
             THEN Panicked(129, "unwrap", Advance(ts))
             ELSE ReadTermAction(e, FromSymbol(token.val.sym).val,
                                 ReadTerm(Advance(ts)))
        ELSE Parsed(e, ts)

\* the while loop of read_term
ReadTermLoop(e, ts) ==
    LET token == Read(ts)
    IN  IF token.some /\ IsTermSymbol(token.val)
        THEN IF ~FromSymbol(token.val.sym).some
             THEN Panicked(129, "unwrap", Advance(ts))
             ELSE ReadTermAction(e, FromSymbol(token.val.sym).val,
                                 ReadFactor(Advance(ts)))
        ELSE Parsed(e, ts)

\* read_term once its first operand is read
ReadTermFrom(first) ==
    IF ~first.ok THEN first ELSE ReadTermLoop(first.expr, first.stream)

\* read_term
ReadTerm(ts) == ReadTermFrom(ReadFactor(ts))

\* the assignment to expr in the loop of read_relation
ReadRelationAction(e, op, right) ==
    IF ~right.ok
    THEN right
    ELSE ReadRelationLoop(Action(e, op, right.expr), right.stream)

\* the while loop of read_relation
ReadRelationLoop(e, ts) ==
    LET token == Read(ts)
    IN  IF token.some /\ IsRelationSymbol(token.val)
        THEN IF ~FromSymbol(token.val.sym).some
             THEN Panicked(106, "unwrap", Advance(ts))
             ELSE ReadRelationAction(e, FromSymbol(token.val.sym).val,
                                     ReadTerm(Advance(ts)))
        ELSE Parsed(e, ts)

\* read_relation once its first operand is read
ReadRelationFrom(first) ==
    IF ~first.ok THEN first ELSE ReadRelationLoop(first.expr, first.stream)

\* read_relation
ReadRelation(ts) == ReadRelationFrom(ReadTerm(ts))

\* Variant of ParseTokensEnd: the rest of the stream is not asserted empty
ParseTokensEndUnchecked(parsed) == parsed

\* parse_tokens after read_relation returned: assert_eq!(stream.read(), None)
ParseTokensEnd(parsed) ==
    IF ~parsed.ok
    THEN parsed
    ELSE IF Read(parsed.stream) # None
    THEN Panicked(166, "assert_eq", parsed.stream)
    ELSE parsed

\* parse_tokens
ParseTokens(toks) == ParseTokensEnd(ReadRelation(TokenStreamNew(toks)))

\* execute after tokenize returned, in a build with overflow checks or
\* without
ExecuteParsed(parsed, checks) ==
    IF ~parsed.ok
    THEN [ok |-> FALSE, panic |-> parsed.panic]
    ELSE IF checks /\ EvaluatePanic(parsed.expr) # 0
    THEN [ok |-> FALSE,
          panic |-> [line |-> EvaluatePanic(parsed.expr),
                     cause |-> "overflow"]]
    ELSE [ok |-> TRUE, value |-> Evaluate(parsed.expr)]

---------------------------------------------------------------------------
(* main.rs *)

\* execute: the value of the line, or the panic that ends it, in a build
\* with overflow checks or without
Execute(input, checks) ==
    LET tokenized == Tokenize(input)
    IN  IF checks /\ tokenized.overflowed
        THEN [ok |-> FALSE, panic |-> [line |-> 88, cause |-> "overflow"]]
        ELSE IF ~tokenized.ok
        THEN [ok |-> FALSE,
              panic |-> [line |-> 102, cause |-> "panic",
                         location |-> tokenized.location]]
        ELSE ExecuteParsed(ParseTokens(tokenized.tokens), checks)

---------------------------------------------------------------------------
(* The pipeline of execute as a state machine: line is the argument, pc   *)
(* the stage reached, tokens the vector tokenize returned, stream the     *)
(* TokenStream of parse_tokens as the parser left it, expr the tree,      *)
(* result the value, error the panic that ended the run.  lineno is the   *)
(* number of lines main has folded into its output before this one, and   *)
(* got what the last read() of a TokenStream used on its own returned.    *)

NoExpr == [kind |-> "None"]
NoError == [line |-> 0, cause |-> "none"]
NoStream == TokenStreamNew(<<>>)

\* token::tokenize(expr), in a build with overflow checks or without
DoTokenize ==
    /\ pc = "start"
    /\ \E checks \in BOOLEAN :
          LET tokenized == Tokenize(line)
          IN  IF checks /\ tokenized.overflowed
              THEN /\ tokens' = tokens
                   /\ pc' = "panicked"
                   /\ error' = [line |-> 88, cause |-> "overflow"]
              ELSE IF tokenized.ok
              THEN /\ tokens' = tokenized.tokens
                   /\ pc' = "tokenized"
                   /\ error' = error
              ELSE /\ tokens' = tokens
                   /\ pc' = "panicked"
                   /\ error' = [line |-> 102, cause |-> "panic",
                                location |-> tokenized.location]
    /\ UNCHANGED <<line, stream, expr, result, got, lineno>>

\* ast::parse_tokens(tokens)
DoParse ==
    /\ pc = "tokenized"
    /\ LET parsed == ParseTokens(tokens)
       IN  /\ stream' = parsed.stream
           /\ IF parsed.ok
              THEN /\ expr' = parsed.expr
                   /\ pc' = "parsed"
                   /\ error' = error
              ELSE /\ expr' = expr
                   /\ pc' = "panicked"
                   /\ error' = parsed.panic
    /\ UNCHANGED <<line, tokens, result, got, lineno>>

\* Variant of DoEvaluate: evaluate folds the tree into the Const of its
\* value
DoEvaluateFolding ==
    /\ pc = "parsed"
    /\ result' = Evaluate(expr)
    /\ expr' = Const(Evaluate(expr))
    /\ pc' = "done"
    /\ UNCHANGED <<line, tokens, stream, error, got, lineno>>

\* .evaluate(), in a build with overflow checks or without
DoEvaluate ==
    /\ pc = "parsed"
    /\ \E checks \in BOOLEAN :
          IF checks /\ EvaluatePanic(expr) # 0
          THEN /\ result' = result
               /\ pc' = "panicked"
               /\ error' = [line |-> EvaluatePanic(expr), cause |-> "overflow"]
          ELSE /\ result' = Evaluate(expr)
               /\ pc' = "done"
               /\ error' = error
    /\ UNCHANGED <<line, tokens, stream, expr, got, lineno>>

\* the sequences over S of length at most n
SeqsUpTo(S, n) == UNION {[1..k -> S] : k \in 0..n}

\* the tokens a token vector may hold
TokenAlphabet ==
    {Op(s) : s \in Symbols} \cup {Number(n) : n \in 0..MaxNumber}
        \cup {Whitespace(c) : c \in WhitespaceChars}

InitCommon ==
    /\ stream = NoStream
    /\ expr = NoExpr
    /\ result = 0
    /\ error = NoError
    /\ got = None
    /\ lineno = 0

\* execute is called with an arbitrary line
Init ==
    /\ line \in SeqsUpTo(Chars, MaxLen)
    /\ pc = "start"
    /\ tokens = <<>>
    /\ InitCommon

\* parse_tokens is called with an arbitrary token vector, as the tests of
\* ast.rs call it
InitParse ==
    /\ line = <<>>
    /\ pc = "tokenized"
    /\ tokens \in SeqsUpTo(TokenAlphabet, MaxTokens)
    /\ InitCommon

\* The well-formed lines: one, two or three operands joined by operators,
\* the three-operand lines also with a parenthesised pair, each written
\* without whitespace, with one space between its tokens, or with spaces
\* before, between and after them.
Operands == 0..MaxOperand \cup {10}
OperatorChars == {"+", "-", "*", "<", ">", "="}
Layouts == {"bare", "between", "around"}

\* the decimal digits of n
DigitChar(d) == <<"0", "1", "2", "3", "4", "5", "6", "7", "8", "9">>[d + 1]
RECURSIVE Decimal(_)
Decimal(n) ==
    IF n < 10
    THEN <<DigitChar(n)>>
    ELSE Append(Decimal(n \div 10), DigitChar(n % 10))

\* the texts of the tokens of the lines
Line1(a) == <<Decimal(a)>>
Line2(a, p, b) == <<Decimal(a), <<p>>, Decimal(b)>>
Line3(a, p, b, q, c) == <<Decimal(a), <<p>>, Decimal(b), <<q>>, Decimal(c)>>
Line3Left(a, p, b, q, c) ==
    <<<<"(">>, Decimal(a), <<p>>, Decimal(b), <<")">>, <<q>>, Decimal(c)>>
Line3Right(a, p, b, q, c) ==
    <<Decimal(a), <<p>>, <<"(">>, Decimal(b), <<q>>, Decimal(c), <<")">>>>

Shapes == {"one", "two", "three", "left", "right"}
TokenTexts(shape, a, p, b, q, c) ==
    CASE shape = "one" -> Line1(a)
      [] shape = "two" -> Line2(a, p, b)
      [] shape = "three" -> Line3(a, p, b, q, c)
      [] shape = "left" -> Line3Left(a, p, b, q, c)
      [] shape = "right" -> Line3Right(a, p, b, q, c)

\* the line of the token texts in a layout
RECURSIVE Join(_, _)
Join(texts, sep) ==
    IF Len(texts) = 0 THEN <<>>
    ELSE IF Len(texts) = 1 THEN texts[1]
    ELSE texts[1] \o sep \o Join(Tail(texts), sep)

Written(texts, layout) ==
    CASE layout = "bare" -> Join(texts, <<>>)
      [] layout = "between" -> Join(texts, <<" ">>)
      [] layout = "around" -> <<" ">> \o Join(texts, <<" ">>) \o <<" ">>

\* execute is called with a well-formed line
InitExec ==
    /\ \E shape \in Shapes, layout \in Layouts,
          a \in Operands, b \in Operands, c \in Operands,
          p \in OperatorChars, q \in OperatorChars :
            line = Written(TokenTexts(shape, a, p, b, q, c), layout)
    /\ pc = "start"
    /\ tokens = <<>>
    /\ InitCommon

\* A TokenStream used on its own: new, then read() and advance() in any
\* order.  pc is "new" until the first call and then names the last call.
CursorStages == {"new", "read", "advanced"}

\* stream.read()
CursorRead ==
    /\ pc \in CursorStages
    /\ got' = Read(stream)
    /\ stream' = AfterRead(stream)
    /\ pc' = "read"
    /\ UNCHANGED <<line, tokens, expr, result, error, lineno>>

\* stream.advance(); the calls are followed until the cursor is MaxPast
\* tokens past the end
CursorAdvance ==
    /\ pc \in CursorStages
    /\ stream.pos < Len(stream.tokens) + MaxPast
    /\ stream' = Advance(stream)
    /\ pc' = "advanced"
    /\ UNCHANGED <<line, tokens, expr, result, error, got, lineno>>

\* TokenStream::new(tokens) for an arbitrary token vector
InitCursor ==
    /\ line = <<>>
    /\ pc = "new"
    /\ tokens \in SeqsUpTo(TokenAlphabet, MaxCursorTokens)
    /\ stream = TokenStreamNew(tokens)
    /\ expr = NoExpr
    /\ result = 0
    /\ error = NoError
    /\ got = None
    /\ lineno = 0

\* The lines at the limits of Num: one, two or three operands, each at or
\* next to a limit of Num, beyond it, or small, joined by operators.
LimitOperands ==
    {0, 1, 2, NumMax \div 2 + 1, NumMax - 1, NumMax, NumMax + 1,
     Modulus, Modulus + 1, 10 * Modulus + 1}
LastOperands == {1, 2, NumMax}

\* execute is called with a line at the limits of Num
InitOverflow ==
    /\ \E shape \in {"one", "two", "three"},
          a \in LimitOperands, b \in LimitOperands, c \in LastOperands,
          p \in OperatorChars, q \in OperatorChars :
            line = Written(TokenTexts(shape, a, p, b, q, c), "bare")
    /\ pc = "start"
    /\ tokens = <<>>
    /\ InitCommon

\* main: the lines of the input, each over FileChars, are mapped by
\* execute one after the other; a panic of execute ends main.  The locals
\* of execute are new in each call.
FileChars == {"1", "2", "+", "-", "*", "a"}

InitMain ==
    /\ line \in SeqsUpTo(FileChars, MaxFileLine)
    /\ pc = "start"
    /\ tokens = <<>>
    /\ InitCommon

\* the fold takes the value of the line and map calls execute on the next
NextLine ==
    /\ pc = "done"
    /\ lineno < MaxLines
    /\ lineno' = lineno + 1
    /\ line' \in SeqsUpTo(FileChars, MaxFileLine)
    /\ pc' = "start"
    /\ tokens' = <<>>
    /\ stream' = NoStream
    /\ expr' = NoExpr
    /\ result' = 0
    /\ error' = NoError
    /\ UNCHANGED got

Next == DoTokenize \/ DoParse \/ DoEvaluate

NextMain == DoTokenize \/ DoParse \/ DoEvaluate \/ NextLine

NextCursor == CursorRead \/ CursorAdvance

NextParse == DoParse \/ DoEvaluate

Spec == Init /\ [][Next]_vars

SpecParse == InitParse /\ [][NextParse]_vars

SpecExec == InitExec /\ [][Next]_vars

SpecCursor == InitCursor /\ [][NextCursor]_vars

SpecOverflow == InitOverflow /\ [][Next]_vars

SpecMain == InitMain /\ [][NextMain]_vars

---------------------------------------------------------------------------
(* What the claims speak of *)

\* execute has returned or panicked
Finished == pc \in {"done", "panicked"}

\* the line without its whitespace characters
StripWhitespace(s) == SelectSeq(s, LAMBDA c : c \notin {" ", "\t"})

\* the three precedence levels of the operator symbols
RelationalSymbols == {"LessThan", "BiggerThan", "Equal"}
AdditiveSymbols == {"Plus", "Minus"}
MultiplicativeSymbols == {"Asterisk"}
OperatorSymbols ==
    RelationalSymbols \cup AdditiveSymbols \cup MultiplicativeSymbols
Level(sym) ==
    IF sym \in RelationalSymbols THEN 1
    ELSE IF sym \in AdditiveSymbols THEN 2
    ELSE 3

\* the arithmetic meaning of an operator symbol
Meaning(sym, l, r) ==
    CASE sym = "Plus" -> l + r
      [] sym = "Minus" -> l - r
      [] sym = "Asterisk" -> l * r
      [] sym = "LessThan" -> IF l < r THEN 1 ELSE 0
      [] sym = "BiggerThan" -> IF l > r THEN 1 ELSE 0
      [] sym = "Equal" -> IF l = r THEN 1 ELSE 0

IsNumberToken(t) == t.type = "Number"
IsOperatorToken(t) == t.type = "Op" /\ t.sym \in OperatorSymbols

\* the token vectors a p b q c, ( a p b ) q c and a p ( b q c )
IsChain(t) ==
    /\ Len(t) = 5
    /\ IsNumberToken(t[1]) /\ IsOperatorToken(t[2]) /\ IsNumberToken(t[3])
    /\ IsOperatorToken(t[4]) /\ IsNumberToken(t[5])
IsLeftGroup(t) ==
    /\ Len(t) = 7
    /\ t[1] = Op("LeftParenthesis") /\ IsNumberToken(t[2])
    /\ IsOperatorToken(t[3]) /\ IsNumberToken(t[4])
    /\ t[5] = Op("RightParenthesis") /\ IsOperatorToken(t[6])
    /\ IsNumberToken(t[7])
IsRightGroup(t) ==
    /\ Len(t) = 7
    /\ IsNumberToken(t[1]) /\ IsOperatorToken(t[2])
    /\ t[3] = Op("LeftParenthesis") /\ IsNumberToken(t[4])
    /\ IsOperatorToken(t[5]) /\ IsNumberToken(t[6])
    /\ t[7] = Op("RightParenthesis")

\* (a p b) q c and a p (b q c)
LeftFirst(a, p, b, q, c) == Meaning(q, Meaning(p, a, b), c)
RightFirst(a, p, b, q, c) == Meaning(p, a, Meaning(q, b, c))

---------------------------------------------------------------------------
(* C1 *)

\* C1: a line that is a valid expression once its whitespace is removed,
\* and that holds whitespace, is executed without a panic and gives the
\* value of the line without the whitespace.
C1_WhitespaceIgnored ==
    (Finished /\ line # StripWhitespace(line)) =>
        \A checks \in BOOLEAN :
            LET bare == Execute(StripWhitespace(line), checks)
            IN  bare.ok => (pc = "done" /\ result = bare.value)

---------------------------------------------------------------------------
(* C2 *)

\* C2: with operators of two different levels, a p b q c has the value of
\* a p (b q c) when q is of the higher level and of (a p b) q c when p is;
\* a parenthesised pair is evaluated as a unit, (a p b) q c and a p (b q c)
\* being evaluated as written, whatever the levels.
C2_Precedence ==
    Finished =>
        /\ (IsChain(tokens) /\ Level(tokens[2].sym) # Level(tokens[4].sym)) =>
              /\ pc = "done"
              /\ result =
                   IF Level(tokens[4].sym) > Level(tokens[2].sym)
                   THEN RightFirst(tokens[1].num, tokens[2].sym, tokens[3].num,
                                   tokens[4].sym, tokens[5].num)
                   ELSE LeftFirst(tokens[1].num, tokens[2].sym, tokens[3].num,
                                  tokens[4].sym, tokens[5].num)
        /\ IsLeftGroup(tokens) =>
              /\ pc = "done"
              /\ result = LeftFirst(tokens[2].num, tokens[3].sym, tokens[4].num,
                                    tokens[6].sym, tokens[7].num)
        /\ IsRightGroup(tokens) =>
              /\ pc = "done"
              /\ result = RightFirst(tokens[1].num, tokens[2].sym, tokens[4].num,
                                     tokens[5].sym, tokens[6].num)

\* 1+2*3 has given 7
C2_Witness ==
    /\ pc = "done"
    /\ line = <<"1", "+", "2", "*", "3">>
    /\ result = 7

---------------------------------------------------------------------------
(* C3 *)

\* C3: with operators of the same level, a p b q c has the value of
\* (a p b) q c.
C3_LeftAssociative ==
    (Finished /\ IsChain(tokens) /\ Level(tokens[2].sym) = Level(tokens[4].sym))
        => /\ pc = "done"
           /\ result = LeftFirst(tokens[1].num, tokens[2].sym, tokens[3].num,
                                 tokens[4].sym, tokens[5].num)
           /\ expr.kind = "Action" /\ expr.left.kind = "Action"
           /\ expr.right.kind = "Const"

\* 1-2-3 has given -4
C3_Witness ==
    /\ pc = "done"
    /\ line = <<"1", "-", "2", "-", "3">>
    /\ result = -4

---------------------------------------------------------------------------
(* C4 *)

\* the value the claim gives an Expression
OperatorMeaning(op, l, r) ==
    CASE op = "Summation" -> l + r
      [] op = "Subtraction" -> l - r
      [] op = "Multiplication" -> l * r
      [] op = "LessThanComparison" -> IF l < r THEN 1 ELSE 0
      [] op = "BiggerThanComparison" -> IF l > r THEN 1 ELSE 0
      [] op = "EqualityComparison" -> IF l = r THEN 1 ELSE 0
RECURSIVE Value(_)
Value(e) ==
    IF e.kind = "Const"
    THEN e.val
    ELSE OperatorMeaning(e.action, Value(e.left), Value(e.right))

Comparisons ==
    {"LessThanComparison", "BiggerThanComparison", "EqualityComparison"}

\* C4: the result of evaluate is the constant of a Const, and for an
\* Action the operator's meaning applied to the values of the two
\* children; a comparison gives 1 or 0 and nothing else.
C4_EvaluateSemantics ==
    pc = "done" =>
        /\ result = Value(expr)
        /\ expr.kind = "Const" => result = expr.val
        /\ (expr.kind = "Action" /\ expr.action \in Comparisons) =>
              result \in {0, 1}

\* 1>0 has given 1
C4_Witness ==
    /\ pc = "done"
    /\ line = <<"1", ">", "0">>
    /\ expr = Action(Const(1), "BiggerThanComparison", Const(0))
    /\ result = 1

---------------------------------------------------------------------------
(* The characters of a line, as the claims class them *)

DecimalDigits == {"0", "1", "2", "3", "4", "5", "6", "7", "8", "9"}
SymbolCharacters == {"+", "-", "*", "<", ">", "=", "(", ")"}
WhitespaceCharacters == {" ", "\t"}

DigitValue(c) ==
    CHOOSE d \in 0..9 :
        c = <<"0", "1", "2", "3", "4", "5", "6", "7", "8", "9">>[d + 1]

SymbolOf(c) ==
    CASE c = "+" -> "Plus"
      [] c = "-" -> "Minus"
      [] c = "*" -> "Asterisk"
      [] c = "<" -> "LessThan"
      [] c = ">" -> "BiggerThan"
      [] c = "=" -> "Equal"
      [] c = "(" -> "LeftParenthesis"
      [] c = ")" -> "RightParenthesis"

\* a digit run starts at (one-based) i
RunStartsAt(s, i) ==
    /\ s[i] \in DecimalDigits
    /\ i = 1 \/ s[i - 1] \notin DecimalDigits

\* the (one-based) end of the maximal digit run that holds i
RECURSIVE RunEnd(_, _)
RunEnd(s, i) ==
    IF i < Len(s) /\ s[i + 1] \in DecimalDigits THEN RunEnd(s, i + 1) ELSE i

\* the base-10 value of the digits s[i..j]
RECURSIVE RunValue(_, _, _)
RunValue(s, i, j) ==
    IF j < i THEN 0 ELSE RunValue(s, i, j - 1) * 10 + DigitValue(s[j])

\* a digit run longer than one digit starts with 0 at i
ZeroLedAt(s, i) ==
    /\ RunStartsAt(s, i)
    /\ s[i] = "0"
    /\ RunEnd(s, i) > i

HasZeroLedRun(s) == \E i \in 1..Len(s) : ZeroLedAt(s, i)

\* one Number per maximal digit run and one Op per symbol character, in
\* the order of s[i..]; s holds digits and symbol characters only
RECURSIVE TokensOfRuns(_, _)
TokensOfRuns(s, i) ==
    IF i > Len(s)
    THEN <<>>
    ELSE IF s[i] \in DecimalDigits
    THEN <<Number(RunValue(s, i, RunEnd(s, i)))>>
             \o TokensOfRuns(s, RunEnd(s, i) + 1)
    ELSE <<Op(SymbolOf(s[i]))>> \o TokensOfRuns(s, i + 1)

OnlyDigitsAndSymbols(s) ==
    \A i \in 1..Len(s) : s[i] \in DecimalDigits \cup SymbolCharacters

\* tokenize has panicked
TokenizePanicked == pc = "panicked" /\ error.line = 102

---------------------------------------------------------------------------
(* C5 *)

\* C5 as stated: of every line of digits and symbol characters, tokenize
\* returns one Number per maximal digit run and one Op per symbol
\* character, in order.
C5_EveryRunEmitted ==
    (pc # "start" /\ OnlyDigitsAndSymbols(line)) =>
        /\ ~TokenizePanicked
        /\ tokens = TokensOfRuns(line, 1)

\* C5, amended: of every line of digits and symbol characters in which no
\* digit run longer than one digit starts with 0, tokenize returns one
\* Number per maximal digit run, of the run's base-10 value, and one Op per
\* symbol character, in the order of the line, and nothing else; of the
\* empty line it returns the empty sequence.
C5_RunsEmitted ==
    (pc # "start" /\ OnlyDigitsAndSymbols(line) /\ ~HasZeroLedRun(line)) =>
        /\ ~TokenizePanicked
        /\ tokens = TokensOfRuns(line, 1)
        /\ line = <<>> => tokens = <<>>

\* 2+2 has given Number(2), Op(Plus), Number(2)
C5_Witness ==
    /\ pc = "tokenized"
    /\ line = <<"2", "+", "2">>
    /\ tokens = <<Number(2), Op("Plus"), Number(2)>>

---------------------------------------------------------------------------
(* C6 *)

OnlyKnownCharacters(s) ==
    \A i \in 1..Len(s) :
        s[i] \in DecimalDigits \cup SymbolCharacters \cup WhitespaceCharacters

\* C6: tokenize panics on every line that holds a digit run longer than
\* one digit that starts with 0; a line of digits, symbol characters and
\* whitespace without such a run is accepted, so the run 0 alone and runs
\* with inner or trailing zeros are accepted.
C6_LeadingZeroRejected ==
    pc # "start" =>
        /\ HasZeroLedRun(line) => TokenizePanicked
        /\ (OnlyKnownCharacters(line) /\ ~HasZeroLedRun(line)) =>
              ~TokenizePanicked
        /\ line = <<"0">> => tokens = <<Number(0)>>
        /\ line = <<"1", "0">> => tokens = <<Number(10)>>
        /\ line = <<"1", "0", "0">> => tokens = <<Number(100)>>

\* 1+00 has panicked at its last character
C6_Witness ==
    /\ TokenizePanicked
    /\ line = <<"1", "+", "0", "0">>
    /\ error.location = 3

---------------------------------------------------------------------------
(* C7 *)

IsOther(c) ==
    c \notin DecimalDigits \cup SymbolCharacters \cup WhitespaceCharacters

HasOther(s) == \E i \in 1..Len(s) : IsOther(s[i])

\* the smallest member of a non-empty set of numbers
Least(S) == CHOOSE x \in S : \A y \in S : x <= y

\* the zero-based index of the first character of no class
FirstOther(s) == Least({i \in 1..Len(s) : IsOther(s[i])}) - 1

\* the zero-based indices of the digits that follow the 0 that starts a
\* digit run
AfterLeadingZero(s) ==
    {i \in 1..Len(s) : i > 1 /\ ZeroLedAt(s, i - 1)}

\* C7 as stated: on a line that holds a character of no class tokenize
\* panics, the location is the index of the first such character, and no
\* tokens are returned.
C7_FirstOtherReported ==
    (pc # "start" /\ HasOther(line)) =>
        /\ TokenizePanicked
        /\ error.location = FirstOther(line)
        /\ tokens = <<>>

\* C7, amended: on such a line tokenize panics and no tokens are returned;
\* the location is the index of the first such character, unless a digit
\* run longer than one digit that starts with 0 comes before it, and then
\* it is the index of the digit after that 0.
C7_OtherRejected ==
    (pc # "start" /\ HasOther(line)) =>
        /\ TokenizePanicked
        /\ tokens = <<>>
        /\ error.location =
             Least({FirstOther(line)}
                       \cup {i - 1 : i \in AfterLeadingZero(line)})

\* 1+a has panicked at index 2
C7_Witness ==
    /\ TokenizePanicked
    /\ line = <<"1", "+", "a">>
    /\ error.location = 2
    /\ tokens = <<>>

---------------------------------------------------------------------------
(* The failures of the parser: each is the panic of one source line *)

\* read_primary found the stream finished
UnexpectedEnd(p) == p.line = 73
\* read_primary found a token that starts no primary
UnexpectedToken(p) == p.line = 86
\* read_primary found no closing parenthesis after the inner relation
UnmatchedParenthesis(p) == p.line = 82
\* parse_tokens found a token after the relation
TrailingTokens(p) == p.line = 166

ParsePanicked ==
    pc = "panicked" /\ error.line \in {73, 82, 86, 106, 129, 152, 166}

\* the stream over the tokens with the cursor at p
StreamAt(p) == [tokens |-> tokens, pos |-> p]

---------------------------------------------------------------------------
(* C8 *)

\* C8: when the top-level relation is parsed and a token is left at the
\* cursor, parse_tokens panics on its last line and gives no Expression;
\* so it does when a prefix of the tokens that ends in a Number is a
\* complete expression and the next token is a Number.
C8_TrailingTokens ==
    Finished =>
        /\ LET relation == ReadRelation(TokenStreamNew(tokens))
           IN  (relation.ok /\ Read(relation.stream).some) =>
                  /\ ParsePanicked
                  /\ TrailingTokens(error)
                  /\ expr = NoExpr
                  /\ stream = relation.stream
        /\ \A k \in 1..(Len(tokens) - 1) :
              ( /\ IsNumberToken(tokens[k])
                /\ IsNumberToken(tokens[k + 1])
                /\ ParseTokens(SubSeq(tokens, 1, k)).ok ) =>
                  /\ ParsePanicked
                  /\ TrailingTokens(error)
                  /\ stream.pos = k

\* 1 + 1 followed by 1 has panicked with the cursor on the last 1
C8_Witness ==
    /\ ParsePanicked
    /\ tokens = <<Number(1), Op("Plus"), Number(1), Number(1)>>
    /\ TrailingTokens(error)
    /\ stream.pos = 3

---------------------------------------------------------------------------
(* C9 *)

\* C9: read_primary at an opening parenthesis whose inner relation is
\* parsed: when the token at the cursor is a closing parenthesis that one
\* token is consumed and the inner relation's tree is returned; when it is
\* another token or the stream is finished, read_primary panics on the
\* line of the closing parenthesis, and the parse started there gives no
\* Expression.
C9_ClosingParenthesis ==
    Finished =>
        \A p \in 0..(Len(tokens) - 1) :
            tokens[p + 1] = Op("LeftParenthesis") =>
                LET inner == ReadRelation(StreamAt(p + 1))
                    primary == ReadPrimary(StreamAt(p))
                IN  inner.ok =>
                      IF Read(inner.stream) = Some(Op("RightParenthesis"))
                      THEN /\ primary.ok
                           /\ primary.expr = inner.expr
                           /\ primary.stream.pos = inner.stream.pos + 1
                      ELSE /\ ~primary.ok
                           /\ UnmatchedParenthesis(primary.panic)
                           /\ primary.stream = inner.stream
                           /\ p = 0 =>
                                /\ ParsePanicked
                                /\ UnmatchedParenthesis(error)
                                /\ expr = NoExpr

\* ( 1 ( has panicked at the second parenthesis
C9_Witness ==
    /\ ParsePanicked
    /\ tokens = <<Op("LeftParenthesis"), Number(1), Op("LeftParenthesis")>>
    /\ UnmatchedParenthesis(error)
    /\ stream.pos = 2

---------------------------------------------------------------------------
(* C10 *)

StartsPrimary(t) == IsNumberToken(t) \/ t = Op("LeftParenthesis")

\* C10: read_primary with the cursor past the end panics on its first
\* line, and with the cursor on a token that is no Number and no opening
\* parenthesis panics on its last, the cursor not moved; a parse that ends
\* so gives no Expression and leaves the cursor at the end, or on the
\* offending token; the empty sequence and a sequence read to the end that
\* ends in an operator or an opening parenthesis end so.
C10_PrimaryRequired ==
    Finished =>
        /\ \A p \in 0..Len(tokens) :
              LET primary == ReadPrimary(StreamAt(p))
              IN  /\ p = Len(tokens) =>
                        /\ ~primary.ok
                        /\ UnexpectedEnd(primary.panic)
                        /\ primary.stream.pos = p
                  /\ (p < Len(tokens) /\ ~StartsPrimary(tokens[p + 1])) =>
                        /\ ~primary.ok
                        /\ UnexpectedToken(primary.panic)
                        /\ primary.stream.pos = p
        /\ (ParsePanicked /\ UnexpectedEnd(error)) =>
              /\ stream.pos = Len(tokens)
              /\ expr = NoExpr
        /\ (ParsePanicked /\ UnexpectedToken(error)) =>
              /\ stream.pos < Len(tokens)
              /\ ~StartsPrimary(tokens[stream.pos + 1])
              /\ expr = NoExpr
        /\ tokens = <<>> => (ParsePanicked /\ UnexpectedEnd(error))
        /\ ( /\ tokens # <<>>
             /\ stream.pos = Len(tokens)
             /\ \/ IsOperatorToken(tokens[Len(tokens)])
                \/ tokens[Len(tokens)] = Op("LeftParenthesis") ) =>
              (ParsePanicked /\ UnexpectedEnd(error))
        /\ (tokens # <<>> /\ ~StartsPrimary(tokens[1])) =>
              (ParsePanicked /\ UnexpectedToken(error) /\ stream.pos = 0)

\* 1 + + 1 has panicked at the second +
C10_Witness ==
    /\ ParsePanicked
    /\ tokens = <<Number(1), Op("Plus"), Op("Plus"), Number(1)>>
    /\ UnexpectedToken(error)
    /\ stream.pos = 2

---------------------------------------------------------------------------
(* C11 *)

\* the token vectors t[i..j] the grammar derives:
\*   relation := term (relOp term)*    term := factor (addOp factor)*
\*   factor := primary (mulOp primary)*
\*   primary := Number | '(' relation ')'
RECURSIVE DerivesPrimary(_, _, _), DerivesFactor(_, _, _),
          DerivesTerm(_, _, _), DerivesRelation(_, _, _)
IsSymbolOf(t, S) == t.type = "Op" /\ t.sym \in S
DerivesPrimary(t, i, j) ==
    \/ i = j /\ IsNumberToken(t[i])
    \/ /\ i + 1 < j
       /\ t[i] = Op("LeftParenthesis")
       /\ t[j] = Op("RightParenthesis")
       /\ DerivesRelation(t, i + 1, j - 1)
DerivesFactor(t, i, j) ==
    \/ DerivesPrimary(t, i, j)
    \/ \E k \in (i + 1)..(j - 1) :
          /\ IsSymbolOf(t[k], MultiplicativeSymbols)
          /\ DerivesFactor(t, i, k - 1)
          /\ DerivesPrimary(t, k + 1, j)
DerivesTerm(t, i, j) ==
    \/ DerivesFactor(t, i, j)
    \/ \E k \in (i + 1)..(j - 1) :
          /\ IsSymbolOf(t[k], AdditiveSymbols)
          /\ DerivesTerm(t, i, k - 1)
          /\ DerivesFactor(t, k + 1, j)
DerivesRelation(t, i, j) ==
    \/ DerivesTerm(t, i, j)
    \/ \E k \in (i + 1)..(j - 1) :
          /\ IsSymbolOf(t[k], RelationalSymbols)
          /\ DerivesRelation(t, i, k - 1)
          /\ DerivesTerm(t, k + 1, j)
Derivable(t) == Len(t) > 0 /\ DerivesRelation(t, 1, Len(t))

\* a fully formed tree: every node a Const, or an Action of an operator on
\* two fully formed trees; and the number of its Consts
RECURSIVE IsTree(_), Consts(_)
IsTree(e) ==
    \/ e.kind = "Const"
    \/ /\ e.kind = "Action"
       /\ e.action \in Operators
       /\ IsTree(e.left)
       /\ IsTree(e.right)
Consts(e) == IF e.kind = "Const" THEN 1 ELSE Consts(e.left) + Consts(e.right)

\* C11: a token vector the grammar derives is parsed without a panic, to a
\* fully formed tree with one Const for each of its Number tokens, the
\* cursor at the end.
C11_ParserComplete ==
    (Finished /\ Derivable(tokens)) =>
        /\ pc = "done"
        /\ error = NoError
        /\ IsTree(expr)
        /\ Consts(expr) = Cardinality({i \in 1..Len(tokens) :
                                          IsNumberToken(tokens[i])})
        /\ stream.pos = Len(tokens)

\* 1-(2<3) and (1-2)*3 have been parsed
C11_Witness ==
    /\ pc = "done"
    /\ Derivable(tokens)
    /\ \/ tokens = <<Number(1), Op("Minus"), Op("LeftParenthesis"), Number(2),
                     Op("LessThan"), Number(3), Op("RightParenthesis")>>
       \/ tokens = <<Op("LeftParenthesis"), Number(1), Op("Minus"), Number(2),
                     Op("RightParenthesis"), Op("Asterisk"), Number(3)>>

---------------------------------------------------------------------------
(* C12 *)

\* one Number per maximal digit run, one Op per symbol character and one
\* Whitespace per whitespace character, in the order of s[i..]; s holds
\* digits, symbol characters and whitespace only
RECURSIVE TokensOfLine(_, _)
TokensOfLine(s, i) ==
    IF i > Len(s)
    THEN <<>>
    ELSE IF s[i] \in DecimalDigits
    THEN <<Number(RunValue(s, i, RunEnd(s, i)))>>
             \o TokensOfLine(s, RunEnd(s, i) + 1)
    ELSE IF s[i] \in WhitespaceCharacters
    THEN <<Whitespace(s[i])>> \o TokensOfLine(s, i + 1)
    ELSE <<Op(SymbolOf(s[i]))>> \o TokensOfLine(s, i + 1)

\* the whitespace characters of a line, and those the tokens carry
WhitespaceOf(s) == SelectSeq(s, LAMBDA c : c \in WhitespaceCharacters)
RECURSIVE Carried(_)
Carried(toks) ==
    IF toks = <<>>
    THEN <<>>
    ELSE IF Head(toks).type = "Whitespace"
    THEN <<Head(toks).ch>> \o Carried(Tail(toks))
    ELSE Carried(Tail(toks))

\* the number of maximal digit runs of a line, and of Number tokens
DigitRuns(s) == Cardinality({i \in 1..Len(s) : RunStartsAt(s, i)})
Numbers(toks) == Cardinality({i \in 1..Len(toks) : IsNumberToken(toks[i])})

\* C12: the tokens tokenize returns hold one Whitespace token for each
\* whitespace character of the line, carrying that character, in the
\* order of the line and at its place among the other tokens; a digit run
\* that a whitespace character ends is emitted before the Whitespace
\* token, and the digits after it start a new Number.  The tokens of
\* "2 * 10", a line longer than those of Spec, are compared once, in the
\* states of the empty line.
C12_WhitespacePreserved ==
    /\ (pc # "start" /\ ~TokenizePanicked) =>
          /\ Carried(tokens) = WhitespaceOf(line)
          /\ tokens = TokensOfLine(line, 1)
          /\ Numbers(tokens) = DigitRuns(line)
    /\ line = <<>> =>
          Tokenize(<<"2", " ", "*", " ", "1", "0">>).tokens =
              <<Number(2), Whitespace(" "), Op("Asterisk"), Whitespace(" "),
                Number(10)>>

\* 1, a space, a tab, 2 has given Number(1), Whitespace(' '),
\* Whitespace('\t'), Number(2)
C12_Witness ==
    /\ pc = "tokenized"
    /\ line = <<"1", " ", "\t", "2">>
    /\ tokens = <<Number(1), Whitespace(" "), Whitespace("\t"), Number(2)>>

---------------------------------------------------------------------------
(* C13 *)

\* a TokenStream is used on its own
CursorUsed == pc \in CursorStages

\* the token of the vector at a zero-based position, or none
TokenAt(toks, p) ==
    IF p \in 0..(Len(toks) - 1) THEN Some(toks[p + 1]) ELSE None

\* C13: a read() returns the token at the position of the cursor, or none
\* when the position is at or past the end, and leaves the position and
\* the tokens as they are; a read() that follows a read() returns what
\* that one returned.
C13_ReadFrame ==
    [][pc' = "read" =>
          /\ got' = TokenAt(tokens, stream.pos)
          /\ stream'.pos = stream.pos
          /\ stream'.tokens = stream.tokens
          /\ pc = "read" => got' = got]_vars

\* after read(), advance(), read(), advance(), advance(), read() over
\* + 1 the cursor is past the end and the last read() has returned none
C13_Witness ==
    /\ pc = "read"
    /\ tokens = <<Op("Plus"), Number(1)>>
    /\ stream.pos = 2
    /\ got = None

---------------------------------------------------------------------------
(* C14 *)

\* C14 as stated: advance() adds one to the position and read() nothing,
\* the position never exceeds the number of tokens plus one, and the tokens
\* are those the TokenStream was made with.
C14_PositionBounded ==
    /\ [][/\ pc' = "advanced" => stream'.pos = stream.pos + 1
          /\ pc' = "read" => stream'.pos = stream.pos]_vars
    /\ [](CursorUsed =>
             /\ stream.pos <= Len(tokens) + 1
             /\ stream.tokens = tokens)

\* C14, amended: advance() adds one to the position wherever the cursor
\* is, at or past the end too, and read() adds nothing, so the position
\* never decreases and is not bounded by the number of tokens; the tokens
\* are those the TokenStream was made with.
C14_PositionCounts ==
    /\ [][/\ pc' = "advanced" => stream'.pos = stream.pos + 1
          /\ pc' = "read" => stream'.pos = stream.pos
          /\ stream'.pos >= stream.pos]_vars
    /\ [](CursorUsed =>
             /\ stream.pos >= 0
             /\ stream.tokens = tokens)

\* the cursor over the single token 1 has been advanced to position 3
C14_Witness ==
    /\ pc = "advanced"
    /\ tokens = <<Number(1)>>
    /\ stream.pos = Len(tokens) + 2

---------------------------------------------------------------------------
(* C15 *)

\* evaluate has panicked
EvaluatePanicked == pc = "panicked" /\ error.line \in {17, 18, 19}

\* C15: once parse_tokens has returned an Expression, the run does not
\* panic: evaluate returns an integer.
C15_EvaluateTotal == expr # NoExpr => pc \in {"parsed", "done"}

---------------------------------------------------------------------------
(* C16 *)

\* tokenize has panicked at num * 10 + digit
AccumulationPanicked == pc = "panicked" /\ error.line = 88

\* the exact values of the maximal digit runs of s[i..], in order
RECURSIVE RunValues(_, _)
RunValues(s, i) ==
    IF i > Len(s)
    THEN <<>>
    ELSE IF s[i] \in DecimalDigits
    THEN <<RunValue(s, i, RunEnd(s, i))>> \o RunValues(s, RunEnd(s, i) + 1)
    ELSE RunValues(s, i + 1)

\* the values of the Number tokens, in order
RECURSIVE NumberValues(_)
NumberValues(toks) ==
    IF toks = <<>>
    THEN <<>>
    ELSE IF IsNumberToken(Head(toks))
    THEN <<Head(toks).num>> \o NumberValues(Tail(toks))
    ELSE NumberValues(Tail(toks))

\* C16: of a line of digits, symbol characters and whitespace in which no
\* digit run starts with a 0 that another digit follows, tokenize returns,
\* without a panic, Numbers whose values are the exact decimal values of
\* the digit runs, however long a run is.
C16_LiteralExact ==
    (pc # "start" /\ OnlyKnownCharacters(line) /\ ~HasZeroLedRun(line)) =>
        /\ ~AccumulationPanicked
        /\ ~TokenizePanicked
        /\ NumberValues(tokens) = RunValues(line, 1)

---------------------------------------------------------------------------
(* C17 *)

\* the locals of tokenize when its loop over the line has ended
LoopEnd == TokenizeLoop(line, 1, TokenizeStart)

\* C17: the loop of tokenize makes one step for each character and no
\* more, so that i is the length of the line when it ends without a panic
\* and less when it panics; and wherever the
\* cursor is, read_primary, read_factor, read_term and read_relation
\* return with the cursor not moved back and not past the end, and moved
\* forward by at least one token when they return an Expression (by at
\* least three when the primary is parenthesised), so that the loops and
\* the recursion make at most as many advances as there are tokens.
C17_Terminates ==
    /\ pc # "start" =>
          /\ LoopEnd.i <= Len(line)
          /\ ~LoopEnd.panicked => LoopEnd.i = Len(line)
          /\ LoopEnd.panicked => LoopEnd.i < Len(line)
    /\ pc \notin {"start", "tokenized"} =>
          \A p \in 0..Len(tokens) :
              /\ \A r \in {ReadPrimary(StreamAt(p)), ReadFactor(StreamAt(p)),
                           ReadTerm(StreamAt(p)), ReadRelation(StreamAt(p))} :
                    /\ p <= r.stream.pos
                    /\ r.stream.pos <= Len(tokens)
                    /\ r.ok => p < r.stream.pos
              /\ ( /\ p < Len(tokens)
                   /\ tokens[p + 1] = Op("LeftParenthesis")
                   /\ ReadPrimary(StreamAt(p)).ok ) =>
                    p + 3 <= ReadPrimary(StreamAt(p)).stream.pos

\* (1)+ has been read to its end, where read_factor panics
C17_Witness ==
    /\ pc = "panicked"
    /\ line = <<"(", "1", ")", "+">>
    /\ LoopEnd.i = 4
    /\ stream.pos = 4
    /\ UnexpectedEnd(error)

---------------------------------------------------------------------------
(* C18 *)

\* what the run of execute on the line has left is what execute gives for
\* the line on its own, in a build with overflow checks or without
OutcomeOfLineAlone ==
    \E checks \in BOOLEAN :
        LET alone == Execute(line, checks)
        IN  IF pc = "done"
            THEN /\ alone.ok
                 /\ result = alone.value
                 /\ tokens = Tokenize(line).tokens
                 /\ expr = ParseTokens(tokens).expr
            ELSE /\ ~alone.ok
                 /\ error.line = alone.panic.line

\* C18: evaluate leaves the Expression, the tokens and the cursor as they
\* are, and evaluating the tree it has left gives the value it returned;
\* what a line gives is what execute gives for that line alone, whatever
\* lines main has executed before it.
C18_EvaluateFrame ==
    /\ [][(pc = "parsed" /\ pc' = "done") =>
             /\ expr' = expr
             /\ tokens' = tokens
             /\ stream' = stream
             /\ line' = line
             /\ result' = Evaluate(expr')]_vars
    /\ [](Finished => OutcomeOfLineAlone)

\* the second line of the input, 2-1, has given 1 and its tree is whole
C18_Witness ==
    /\ pc = "done"
    /\ lineno = 1
    /\ line = <<"2", "-", "1">>
    /\ expr = Action(Const(2), "Subtraction", Const(1))
    /\ result = 1

---------------------------------------------------------------------------
(* C19 *)

\* parse_tokens has returned or panicked
ParseEnded == pc \in {"parsed", "done"} \/ ParsePanicked

\* C19: parse_tokens moves the cursor only over tokens it has read, so
\* that, whether it returns or panics, the cursor is at most at the end of
\* the tokens, and it is at the end when an Expression is returned; the
\* same holds of read_relation started at any position.  The cursor only
\* moves forward, so where a run ends bounds every position it has passed.
C19_CursorWithinTokens ==
    ParseEnded =>
        /\ stream.tokens = tokens
        /\ stream.pos \in 0..Len(tokens)
        /\ pc \in {"parsed", "done"} => stream.pos = Len(tokens)
        /\ \A p \in 0..Len(tokens) :
              ReadRelation(StreamAt(p)).stream.pos \in p..Len(tokens)

\* ( 1 + 1 has been read to its end, where the closing parenthesis is
\* missing: the cursor is at the end and not past it
C19_Witness ==
    /\ ParsePanicked
    /\ tokens = <<Op("LeftParenthesis"), Number(1), Op("Plus"), Number(1)>>
    /\ UnmatchedParenthesis(error)
    /\ stream.pos = Len(tokens)

---------------------------------------------------------------------------
(* C20 *)

\* the character of a symbol
CharOf(sym) ==
    CASE sym = "Plus" -> "+"
      [] sym = "Minus" -> "-"
      [] sym = "Asterisk" -> "*"
      [] sym = "BiggerThan" -> ">"
      [] sym = "LessThan" -> "<"
      [] sym = "Equal" -> "="
      [] sym = "LeftParenthesis" -> "("
      [] sym = "RightParenthesis" -> ")"

\* the decimal digits of a Num, with its sign
SignedDecimal(n) == IF n < 0 THEN <<"-">> \o Decimal(-n) ELSE Decimal(n)

\* the text of a token, and of a token vector
TextOf(t) ==
    CASE t.type = "Number" -> SignedDecimal(t.num)
      [] t.type = "Op" -> <<CharOf(t.sym)>>
      [] t.type = "Whitespace" -> <<t.ch>>
RECURSIVE Rendered(_)
Rendered(toks) ==
    IF toks = <<>> THEN <<>> ELSE TextOf(Head(toks)) \o Rendered(Tail(toks))

\* tokenize has returned its tokens
TokenizeReturned ==
    pc # "start" /\ ~TokenizePanicked /\ ~AccumulationPanicked

\* C20: when tokenize returns, the texts of its tokens, in order, are the
\* line; no two Numbers are adjacent; and the characters of two different
\* symbols differ.
C20_Lossless ==
    /\ TokenizeReturned =>
          /\ Rendered(tokens) = line
          /\ \A i \in 1..(Len(tokens) - 1) :
                ~(IsNumberToken(tokens[i]) /\ IsNumberToken(tokens[i + 1]))
    /\ \A c \in SymbolCharacters, d \in SymbolCharacters :
          ParseChar(c) = ParseChar(d) => c = d

=============================================================================
